---- MODULE Spec2Model ----
(***************************************************************************)
(* A model of frmtxlsx.py: the MyFormatter class (validation and the four  *)
(* worksheet operations) and the control flow of main().                   *)
(*                                                                         *)
(* A table is described by the text lengths that the code reads: the       *)
(* length of str(column name) for every column and the length of str(cell) *)
(* for every cell.  The worksheet is the state that the spreadsheet writer *)
(* records: the column widths set by set_column, the list of conditional   *)
(* format rules in the order of the conditional_format calls (earlier      *)
(* rules have the higher priority), and the frozen pane position.          *)
(***************************************************************************)
EXTENDS Integers, Sequences, FiniteSets, TLC

VARIABLES formatter, grey, done, last, prev, before, cli

vars == <<formatter, grey, done, last, prev, before, cli>>

(***************************************************************************)
(* Bounds of the model.                                                    *)
(***************************************************************************)
MaxRows == 2
MaxCols == 2
MaxCalls == 4

(***************************************************************************)
(* Program constants.                                                      *)
(***************************************************************************)
Padding == 2
MinWidth == 8
MaxWidth == 50
DefaultBorderStyle == 1
DefaultFreezeRow == 1
DefaultFreezeCol == 0
ExitFailure == 1
ExitInterrupt == 130
ArgparseUsageStatus == 2

DefaultHeaderColor == "#ffb3b3"
GreyColor == "#d9d9d9"
DefaultBorderColor == "black"

Ops == {"apply_spacing", "apply_borders", "apply_column_colors", "freeze_panes"}

Max2(a, b) == IF a >= b THEN a ELSE b
Min2(a, b) == IF a <= b THEN a ELSE b

(***************************************************************************)
(* Tables.  columns[c] is len(str(name of column c)), rows[r][c] is        *)
(* len(str(cell)); nlevels is the number of levels of the row index.       *)
(* kind "other" is an object that is neither a DataFrame nor a GroupBy.    *)
(***************************************************************************)
Table(R, C, n, hl, cl) ==
    [kind |-> "DataFrame", nlevels |-> n,
     columns |-> [c \in 1..C |-> hl[c]],
     rows |-> [r \in 1..R |-> [c \in 1..C |-> cl[r][c]]]]

NotATable == [kind |-> "other", nlevels |-> 1, columns |-> <<>>, rows |-> <<>>]

\* len(self.data) and len(self.data.columns)
nrows(d) == Len(d.rows)
ncols(d) == Len(d.columns)

\* DataFrame.empty: some axis has length zero
empty(d) == nrows(d) = 0 \/ ncols(d) = 0

\* DataFrame.reset_index(): every index level becomes a leading column, named
\* "level_<k>" (7 characters); the index labels are taken one character wide.
reset_index(d) ==
    [d EXCEPT !.nlevels = 1,
              !.columns = [i \in 1..d.nlevels |-> 7] \o @,
              !.rows = [r \in 1..Len(@) |-> [i \in 1..d.nlevels |-> 1] \o @[r]]]

(***************************************************************************)
(* The formatter object.                                                   *)
(***************************************************************************)
EmptyWorksheet ==
    [col_sizes |-> << >>, cond_formats |-> << >>, panes |-> <<0, 0>>]

MyFormatter(data) ==
    [data |-> data, workbook |-> << >>, worksheet |-> EmptyWorksheet,
     validated |-> FALSE]

Returned(f) == [f |-> f, raised |-> FALSE]
Raised(f) == [f |-> f, raised |-> TRUE]

validate_data(f) ==
    IF f.validated THEN Returned(f)
    ELSE IF f.data.kind = "DataFrame"
    THEN LET d == IF f.data.nlevels > 1 THEN reset_index(f.data) ELSE f.data
             g == [f EXCEPT !.data = d]
         IN  IF empty(d) THEN Raised(g)
             ELSE Returned([g EXCEPT !.validated = TRUE])
    ELSE Raised(f)

\* col_data.str.len().max() if not col_data.empty else 0
RECURSIVE col_len_max(_, _, _)
col_len_max(d, i, r) ==
    IF r = 0 THEN 0 ELSE Max2(d.rows[r][i + 1], col_len_max(d, i, r - 1))

clamp_unbounded(max_width) == Max2(max_width + Padding, MinWidth)

\* width = min(max(max_width + 2, 8), 50)
clamp_width(max_width) == Min2(Max2(max_width + Padding, MinWidth), MaxWidth)

column_width(d, i) ==
    clamp_width(Max2(col_len_max(d, i, nrows(d)), d.columns[i + 1]))

apply_spacing(f) ==
    LET v == validate_data(f) IN
    IF v.raised THEN v
    ELSE LET d == v.f.data
             old == v.f.worksheet.col_sizes
             new == [i \in (DOMAIN old) \cup (0..(ncols(d) - 1)) |->
                        IF i \in 0..(ncols(d) - 1) THEN column_width(d, i)
                        ELSE old[i]]
         IN  Returned([v.f EXCEPT !.worksheet.col_sizes = new])

NoFormat == [bg_color |-> "", bold |-> FALSE, border |-> 0, border_color |-> ""]

\* workbook.add_format(...) followed by worksheet.conditional_format(...)
add_conditional_format(f, first_row, first_col, last_row, last_col, fmt) ==
    [f EXCEPT !.workbook = Append(@, fmt),
              !.worksheet.cond_formats =
                  Append(@, [first_row |-> first_row, first_col |-> first_col,
                             last_row |-> last_row, last_col |-> last_col,
                             format |-> fmt])]

last_row_format_conflicting ==
    [NoFormat EXCEPT !.bg_color = GreyColor, !.bold = TRUE, !.border = 2]

last_row_format == [NoFormat EXCEPT !.bg_color = GreyColor, !.bold = TRUE]

header_format(header_color) == [NoFormat EXCEPT !.bg_color = header_color]

border_format(border_style, border_color) ==
    [NoFormat EXCEPT !.border = border_style, !.border_color = border_color]

grey_row_off_by_one(d) == nrows(d) - 1

\* last_row = len(self.data)
grey_row(d) == nrows(d)

apply_column_colors(f, grey_bottom, header_color) ==
    LET v == validate_data(f) IN
    IF v.raised THEN v
    ELSE LET d == v.f.data
             g == IF grey_bottom /\ nrows(d) > 0
                  THEN add_conditional_format(v.f, grey_row(d), 0, grey_row(d),
                                              ncols(d) - 1, last_row_format)
                  ELSE v.f
             h == IF ncols(d) > 0
                  THEN add_conditional_format(g, 0, 0, 0, ncols(d) - 1,
                                              header_format(header_color))
                  ELSE g
         IN  Returned(h)

border_first_row_with_header == 1 - 1

\* the first row of the bordered range: row 1, after the header
border_first_row == 1

apply_borders(f, border_style, border_color) ==
    LET v == validate_data(f) IN
    IF v.raised THEN v
    ELSE LET d == v.f.data IN
         IF nrows(d) = 0 THEN Returned(v.f)
         ELSE Returned(add_conditional_format(
                  v.f, border_first_row, 0, nrows(d), ncols(d) - 1,
                  border_format(border_style, border_color)))

freeze_panes_relative(f, row, col) ==
    Returned([f EXCEPT !.worksheet.panes = <<@[1] + row, @[2] + col>>])

freeze_panes(f, row, col) ==
    Returned([f EXCEPT !.worksheet.panes = <<row, col>>])

\* One call as main() makes it: default colours, styles and pane position.
Invoke(op, f, grey_bottom) ==
    CASE op = "apply_spacing" -> apply_spacing(f)
      [] op = "apply_borders" ->
             apply_borders(f, DefaultBorderStyle, DefaultBorderColor)
      [] op = "apply_column_colors" ->
             apply_column_colors(f, grey_bottom, DefaultHeaderColor)
      [] op = "freeze_panes" ->
             freeze_panes(f, DefaultFreezeRow, DefaultFreezeCol)

(***************************************************************************)
(* What a worksheet shows.  Every rule is of type "no_errors", so a rule   *)
(* applies to every cell of its range; where several rules apply, each     *)
(* property is taken from the rule of highest priority that sets it.       *)
(***************************************************************************)
RuleCells(cf) ==
    (cf.first_row .. cf.last_row) \X (cf.first_col .. cf.last_col)

RulesCells(rules) == UNION {RuleCells(rules[k]) : k \in DOMAIN rules}

Covering(rules, cell) ==
    {k \in DOMAIN rules : cell \in RuleCells(rules[k])}

FirstOf(S) == CHOOSE k \in S : \A j \in S : k <= j

Rendered(rules, cell) ==
    LET K == Covering(rules, cell)
        B == {k \in K : rules[k].format.bg_color # ""}
        D == {k \in K : rules[k].format.bold}
        E == {k \in K : rules[k].format.border # 0}
        F == {k \in K : rules[k].format.border_color # ""}
    IN  [bg_color |-> IF B = {} THEN "" ELSE rules[FirstOf(B)].format.bg_color,
         bold |-> D # {},
         border |-> IF E = {} THEN 0 ELSE rules[FirstOf(E)].format.border,
         border_color |->
             IF F = {} THEN "" ELSE rules[FirstOf(F)].format.border_color]

View(ws) ==
    [col_sizes |-> ws.col_sizes,
     ranges |-> {ws.cond_formats[k] : k \in DOMAIN ws.cond_formats},
     cells |-> [cell \in RulesCells(ws.cond_formats) |->
                   Rendered(ws.cond_formats, cell)],
     panes |-> ws.panes]

\* The rules that the last call added.
Added == SubSeq(formatter.worksheet.cond_formats,
                Len(before.cond_formats) + 1,
                Len(formatter.worksheet.cond_formats))

(***************************************************************************)
(* Specification Spec: one formatter, the operations called in any order.  *)
(***************************************************************************)
NoCall == [op |-> "none", raised |-> FALSE]

CliIdle == [pc |-> "idle"]

UniformTable(R, C, n) ==
    Table(R, C, n, [c \in 1..C |-> 4], [r \in 1..R |-> [c \in 1..C |-> 5]])

InitFormatter(tables) ==
    /\ formatter \in {MyFormatter(t) : t \in tables}
    /\ grey \in BOOLEAN
    /\ done = [op \in Ops |-> 0]
    /\ last = NoCall
    /\ prev = NoCall
    /\ before = EmptyWorksheet
    /\ cli = CliIdle

Init ==
    InitFormatter({UniformTable(R, C, n) :
                      R \in 0..MaxRows, C \in 0..MaxCols, n \in 1..2}
                  \cup {NotATable})

Calls == done["apply_spacing"] + done["apply_borders"]
         + done["apply_column_colors"] + done["freeze_panes"]

Call(op) ==
    /\ Calls < MaxCalls
    /\ LET r == Invoke(op, formatter, grey) IN
        /\ formatter' = r.f
        /\ last' = [op |-> op, raised |-> r.raised]
    /\ prev' = last
    /\ before' = formatter.worksheet
    /\ done' = [done EXCEPT ![op] = @ + 1]
    /\ UNCHANGED <<grey, cli>>

ApplySpacing == Call("apply_spacing")
ApplyBorders == Call("apply_borders")
ApplyColumnColors == Call("apply_column_colors")
FreezePanes == Call("freeze_panes")

Next == ApplySpacing \/ ApplyBorders \/ ApplyColumnColors \/ FreezePanes

Spec == Init /\ [][Next]_vars

(***************************************************************************)
(* Specification SpecSpacing: apply_spacing over tables whose header and   *)
(* cell text lengths vary independently.                                   *)
(***************************************************************************)
HeaderLens == {4, 60}
CellLens == {1, 20}

VariedTables ==
    UNION {UNION {{Table(R, C, 1, hl, cl) :
                      hl \in [1..C -> HeaderLens],
                      cl \in [1..R -> [1..C -> CellLens]]} :
                  R \in 0..MaxRows} : C \in 0..MaxCols}

InitSpacing == InitFormatter(VariedTables)

NextSpacing == ApplySpacing

SpecSpacing == InitSpacing /\ [][NextSpacing]_vars

(***************************************************************************)
(* Specification SpecCLI: one run of main(), from the end of argument      *)
(* parsing to the exit of the process.                                     *)
(*                                                                         *)
(* cli.pc is the statement main() is at; cli.raised is the exception in    *)
(* flight; cli.writer is the state of the pd.ExcelWriter and cli.outfile   *)
(* the state of the file at the output path.  cli.failure (the first       *)
(* failure of the run), cli.op_failed, cli.applied (the operations that    *)
(* returned), cli.int_try and cli.int_out (an interrupt inside or outside  *)
(* the try block) and cli.masked (an error of the writer's close replaced  *)
(* an interrupt in flight) and cli.rejected (the writer library raised in   *)
(* an operation) record what happened to the run; cli.interrupted_at is    *)
(* the statement at which an interrupt outside the try block arrived.      *)
(***************************************************************************)
NoSheet == ""

MainOrder ==
    <<"apply_spacing", "apply_borders", "apply_column_colors", "freeze_panes">>

\* the operations main() calls, in the order it calls them
requested(args) ==
    IF args.all THEN MainOrder
    ELSE SelectSeq(MainOrder, LAMBDA op : op \in args.flags)

\* validate_input_file: the file exists and has the suffix .xlsx
validate_input_file(input) == input.kind \notin {"missing", "not_xlsx"}

SheetNames(input) == {input.sheets[k].name : k \in DOMAIN input.sheets}

SheetNamed(input, name) ==
    LET k == CHOOSE j \in DOMAIN input.sheets : input.sheets[j].name = name
    IN  input.sheets[k].table

\* pd.read_excel(filepath, sheet_name=sheet_name): a DataFrame for a sheet name,
\* a dict of all the sheets for sheet_name=None, an error for an unreadable
\* file or an unknown sheet.
read_excel(input, sheet_name) ==
    IF input.kind # "workbook" THEN [kind |-> "error"]
    ELSE IF sheet_name = NoSheet THEN [kind |-> "dict"]
    ELSE IF sheet_name \in SheetNames(input)
         THEN [kind |-> "frame", df |-> SheetNamed(input, sheet_name)]
         ELSE [kind |-> "error"]

\* load_excel_data: df.shape is read for the log line, which a dict does not
\* have; every exception becomes an ExcelFormatterError.
load_excel_data(input, sheet_name) ==
    LET df == read_excel(input, sheet_name) IN
    IF df.kind = "frame" THEN [raised |-> FALSE, df |-> df.df]
    ELSE [raised |-> TRUE, df |-> NotATable]

\* The first failure of the run is kept; an exception raised while the writer
\* is open leaves the with block through the writer's __exit__.
Raise(c, exc, why) ==
    [c EXCEPT !.raised = exc,
              !.failure = IF @ = "none" THEN why ELSE @,
              !.pc = IF c.writer = "open" THEN "unwind" ELSE "handler"]

writer_exit_skipped(c, f, completes) == c

\* ExcelWriter.__exit__: close() saves the workbook, whether or not an
\* exception is leaving the with block.
writer_exit(c, f, completes) ==
    IF completes
    THEN [c EXCEPT !.writer = "closed", !.outfile = "complete",
                   !.saved = f.worksheet]
    ELSE [c EXCEPT !.writer = "broken",
                   !.outfile = IF @ = "absent" THEN "absent" ELSE "truncated"]

handler_exit_code_always_failure(raised) == ExitFailure

\* the except clauses of main(); an exception that main() re-raises under
\* --verbose ends the interpreter with status 1
handler_exit_code(raised) ==
    CASE raised = "formatter_error" -> ExitFailure
      [] raised = "input_error" -> ExitFailure
      [] raised = "interrupt" -> ExitInterrupt
      [] raised = "unexpected" -> ExitFailure

\* The status of an interpreter that ends on a KeyboardInterrupt nobody
\* caught: 1, or death by SIGINT, which a shell reports as 130.
UncaughtInterruptStatus == {ExitFailure, ExitInterrupt}

InTry == {"validate_input", "load", "open", "format", "close", "unwind", "report"}

FirstSheets ==
    {UniformTable(MaxRows, MaxCols, 1), UniformTable(0, 1, 1),
     UniformTable(0, 0, 1)}

Inputs ==
    {[kind |-> k, sheets |-> << >>] : k \in {"missing", "not_xlsx", "corrupt"}}
    \cup {[kind |-> "workbook",
           sheets |-> <<[name |-> "Data", table |-> t],
                        [name |-> "Totals", table |-> UniformTable(1, 1, 1)]>>] :
             t \in FirstSheets}

Args ==
    {[sheet |-> s, verbose |-> v, all |-> FALSE, flags |-> fl] :
        s \in {NoSheet, "Data", "Totals", "Missing"}, v \in BOOLEAN,
        fl \in SUBSET Ops}
    \cup {[sheet |-> s, verbose |-> v, all |-> TRUE, flags |-> {}] :
        s \in {NoSheet, "Data", "Totals", "Missing"}, v \in BOOLEAN}

InitCLI ==
    /\ formatter = MyFormatter(NotATable)
    /\ grey \in BOOLEAN
    /\ done = [op \in Ops |-> 0]
    /\ last = NoCall
    /\ prev = NoCall
    /\ before = EmptyWorksheet
    /\ cli \in {[pc |-> "parse", argv_ok |-> ok, args |-> a, input |-> i,
                 df |-> NotATable,
                 loaded |-> FALSE, todo |-> << >>, writer |-> "unopened",
                 outfile |-> "absent", saved |-> EmptyWorksheet,
                 raised |-> "none", exit_code |-> -1, failure |-> "none",
                 op_failed |-> FALSE, applied |-> << >>,
                 int_try |-> FALSE, int_out |-> FALSE, masked |-> FALSE,
                 rejected |-> FALSE, interrupted_at |-> "none"] :
                ok \in BOOLEAN, a \in Args, i \in Inputs}

Step(c) == cli' = c /\ UNCHANGED <<formatter, grey, done, last, prev, before>>

\* line 384: parser.parse_args() returns the arguments, or ends the process
\* with the usage error status when it rejects the command line
ParseArgs ==
    /\ cli.pc = "parse"
    /\ Step(IF cli.argv_ok THEN [cli EXCEPT !.pc = "configure"]
            ELSE [cli EXCEPT !.pc = "exited",
                             !.exit_code = ArgparseUsageStatus])

\* lines 386-390, before the try block
Configure ==
    /\ cli.pc = "configure"
    /\ Step([cli EXCEPT !.pc = "validate_input"])

\* lines 394-395
ValidateInput ==
    /\ cli.pc = "validate_input"
    /\ Step(IF validate_input_file(cli.input)
            THEN [cli EXCEPT !.pc = "load"]
            ELSE Raise(cli, "input_error", "input"))

\* line 398
Load ==
    /\ cli.pc = "load"
    /\ LET r == load_excel_data(cli.input, cli.args.sheet) IN
       Step(IF r.raised THEN Raise(cli, "formatter_error", "load")
            ELSE [cli EXCEPT !.pc = "open", !.df = r.df, !.loaded = TRUE])

\* lines 402-407: the writer is opened (the file at the output path may be
\* created at once, empty), the table is written and the formatter is built
Open ==
    /\ cli.pc = "open"
    /\ \E created \in {"absent", "empty"} :
          cli' = [cli EXCEPT !.writer = "open", !.outfile = created,
                             !.todo = requested(cli.args),
                             !.pc = IF requested(cli.args) = << >>
                                    THEN "close" ELSE "format"]
    /\ formatter' = MyFormatter(cli.df)
    /\ UNCHANGED <<grey, done, last, prev, before>>

\* pd.ExcelWriter(...) raises: no writer, the output path is not opened
OpenFails ==
    /\ cli.pc = "open"
    /\ Step(Raise(cli, "unexpected", "open"))

\* df.to_excel(...) raises inside the with block
WriteFails ==
    /\ cli.pc = "open"
    /\ \E created \in {"absent", "empty"} :
          Step(Raise([cli EXCEPT !.writer = "open", !.outfile = created],
                     "unexpected", "write"))

\* lines 410-423: the next requested operation
Format ==
    /\ cli.pc = "format"
    /\ LET op == Head(cli.todo)
           r == Invoke(op, formatter, grey)
       IN  /\ formatter' = r.f
           /\ cli' = IF r.raised
                     THEN Raise([cli EXCEPT !.op_failed = TRUE],
                                "formatter_error", "format")
                     ELSE [cli EXCEPT !.todo = Tail(@),
                                      !.applied = Append(@, op),
                                      !.pc = IF Tail(cli.todo) = << >>
                                             THEN "close" ELSE "format"]
    /\ UNCHANGED <<grey, done, last, prev, before>>

\* the writer library raises in the next requested operation, which wraps the
\* exception in an ExcelFormatterError
LibraryRejects ==
    /\ cli.pc = "format"
    /\ Step(Raise([cli EXCEPT !.op_failed = TRUE, !.rejected = TRUE],
                   "formatter_error", "format"))

\* the end of the with block
Close ==
    /\ cli.pc = "close"
    /\ Step([writer_exit(cli, formatter, TRUE) EXCEPT !.pc = "report"])

CloseFails ==
    /\ cli.pc = "close"
    /\ Step(Raise(writer_exit(cli, formatter, FALSE), "unexpected", "close"))

\* the with block is left by an exception: __exit__ runs, the exception goes on
Unwind ==
    /\ cli.pc = "unwind"
    /\ Step([writer_exit(cli, formatter, TRUE) EXCEPT !.pc = "handler"])

\* __exit__ raises: its exception replaces the one in flight
UnwindFails ==
    /\ cli.pc = "unwind"
    /\ Step([writer_exit(cli, formatter, FALSE) EXCEPT
                !.pc = "handler", !.raised = "unexpected",
                !.failure = IF @ = "none" THEN "close" ELSE @,
                !.masked = (cli.raised = "interrupt")])

\* lines 425-426, then main() returns
Report ==
    /\ cli.pc = "report"
    /\ Step([cli EXCEPT !.pc = "exited", !.exit_code = 0])

\* lines 428-438
Handler ==
    /\ cli.pc = "handler"
    /\ Step([cli EXCEPT !.pc = "exited",
                        !.exit_code = handler_exit_code(cli.raised)])

\* KeyboardInterrupt inside the try block: while the writer closes, the close
\* is cut short; while the writer is open, __exit__ runs first
Interrupt ==
    /\ cli.pc \in InTry
    /\ Step(IF cli.pc \in {"close", "unwind"}
            THEN [writer_exit(cli, formatter, FALSE) EXCEPT
                     !.pc = "handler", !.raised = "interrupt",
                     !.int_try = TRUE]
            ELSE [Raise(cli, "interrupt", "none") EXCEPT
                     !.failure = cli.failure, !.int_try = TRUE])

\* KeyboardInterrupt before the try block or inside an except clause
InterruptOutsideTry ==
    /\ cli.pc \in {"parse", "configure", "handler"}
    /\ \E status \in UncaughtInterruptStatus :
          Step([cli EXCEPT !.pc = "exited", !.exit_code = status,
                           !.int_out = TRUE, !.interrupted_at = cli.pc])

NextCLI ==
    \/ ParseArgs \/ Configure \/ ValidateInput \/ Load
    \/ Open \/ OpenFails \/ WriteFails
    \/ Format \/ LibraryRejects
    \/ Close \/ CloseFails \/ Unwind \/ UnwindFails
    \/ Report \/ Handler
    \/ Interrupt \/ InterruptOutsideTry

SpecCLI == InitCLI /\ [][NextCLI]_vars

(***************************************************************************)
(* Properties of the formatter operations.                                 *)
(***************************************************************************)
R_ == nrows(formatter.data)
C_ == ncols(formatter.data)

HeaderRow == {0} \X (0..(C_ - 1))
LastDataRow == {R_} \X (0..(C_ - 1))
DataCells == (1..R_) \X (0..(C_ - 1))

ZeroRowTable ==
    /\ formatter.data.kind = "DataFrame"
    /\ R_ = 0
    /\ C_ >= 1

\* C1: on a zero-row table with at least one column, apply_borders and
\* apply_column_colors(grey_bottom=True) return without raising and format no
\* data row, and apply_spacing and the header colouring succeed: the widths of
\* all columns are set and row 0 is coloured.
C1_ZeroRowTableIsFormatted ==
    ZeroRowTable =>
        /\ last.op = "apply_borders" =>
              ~last.raised /\ Added = << >>
        /\ last.op = "apply_column_colors" =>
              ~last.raised /\ RulesCells(Added) = HeaderRow
        /\ last.op = "apply_spacing" =>
              ~last.raised
              /\ 0..(C_ - 1) \subseteq DOMAIN formatter.worksheet.col_sizes

\* C2: a successful apply_borders on a table of R >= 1 rows and C >= 1 columns
\* adds the border format to exactly the cells of rows 1..R, columns 0..C-1:
\* every data cell is bordered, no cell of row 0 and no cell outside the table.
C2_BordersCoverExactlyDataCells ==
    (last.op = "apply_borders" /\ ~last.raised) =>
        /\ R_ >= 1 /\ C_ >= 1
        /\ RulesCells(Added) = DataCells
        /\ \A cell \in DataCells :
              Rendered(Added, cell) =
                  [NoFormat EXCEPT !.border = 1, !.border_color = "black"]

C2_Witness ==
    /\ last.op = "apply_borders" /\ ~last.raised
    /\ R_ = 2 /\ C_ = 2
    /\ Len(Added) = 1

\* C3: a successful apply_column_colors(grey_bottom=False) formats only the
\* cells of row 0, columns 0..C-1, with header_color; with grey_bottom=True and
\* R >= 1 it formats row 0 and exactly the last data row (row R), bold grey.
C3_ColorsCoverHeaderAndLastRow ==
    (last.op = "apply_column_colors" /\ ~last.raised) =>
        /\ \A cell \in HeaderRow :
              Rendered(Added, cell) = [NoFormat EXCEPT !.bg_color = "#ffb3b3"]
        /\ ~grey => RulesCells(Added) = HeaderRow
        /\ (grey /\ R_ >= 1) =>
              /\ RulesCells(Added) = HeaderRow \cup LastDataRow
              /\ \A cell \in LastDataRow :
                    Rendered(Added, cell) =
                        [NoFormat EXCEPT !.bg_color = "#d9d9d9", !.bold = TRUE]

C3_Witness ==
    /\ last.op = "apply_column_colors" /\ ~last.raised
    /\ grey /\ R_ = 2 /\ C_ = 2
    /\ Len(Added) = 2

\* C4: on a non-empty table apply_spacing sets the width of every column i to
\* min(max(m_i + 2, 8), 50), m_i the largest text length among the header and
\* the cells of column i; every width lies in [8, 50] and the widths are
\* non-decreasing in m_i.
LongestText(i) ==
    LET S == {formatter.data.columns[i + 1]}
             \cup {formatter.data.rows[r][i + 1] : r \in 1..R_}
    IN  CHOOSE m \in S : \A x \in S : x <= m

ExpectedWidth(m) ==
    IF m + 2 < 8 THEN 8 ELSE IF m + 2 > 50 THEN 50 ELSE m + 2

C4_SpacingWidths ==
    (last.op = "apply_spacing" /\ ~last.raised) =>
        LET w == formatter.worksheet.col_sizes IN
        /\ DOMAIN w = 0..(C_ - 1)
        /\ \A i \in 0..(C_ - 1) :
              /\ w[i] = ExpectedWidth(LongestText(i))
              /\ w[i] >= 8 /\ w[i] <= 50
        /\ \A i, j \in 0..(C_ - 1) :
              LongestText(i) <= LongestText(j) => w[i] <= w[j]

C4_Witness ==
    /\ last.op = "apply_spacing" /\ ~last.raised
    /\ C_ = 2 /\ R_ = 2
    /\ formatter.worksheet.col_sizes[0] = 8
    /\ formatter.worksheet.col_sizes[1] = 50
    /\ LongestText(1) = 60

\* C5: when each of the four operations has been applied once, in whatever
\* order, the worksheet shows what it shows after the order of main()
\* (spacing, borders, colours, panes): the same column widths, formatted
\* ranges, format of every cell (the last data row included) and frozen panes.
InMainOrder(f, g) ==
    LET a == Invoke("apply_spacing", f, g).f
        b == Invoke("apply_borders", a, g).f
        c == Invoke("apply_column_colors", b, g).f
    IN  Invoke("freeze_panes", c, g).f

EachOnce == \A op \in Ops : done[op] = 1

C5_OrderDoesNotMatter ==
    EachOnce =>
        View(formatter.worksheet)
            = View(InMainOrder(MyFormatter(formatter.data), grey).worksheet)

C5_Witness ==
    /\ EachOnce
    /\ formatter.validated /\ grey /\ R_ = 2 /\ C_ = 2
    /\ last.op = "apply_borders" /\ prev.op = "apply_column_colors"
    /\ Rendered(formatter.worksheet.cond_formats, <<2, 0>>)
          = [bg_color |-> "#d9d9d9", bold |-> TRUE, border |-> 1,
             border_color |-> "black"]

\* C6: calling an operation a second time, right after a call of the same
\* operation with the same arguments, leaves the column widths, the formatted
\* ranges with their formats, and the frozen pane position as they were.
C6_Idempotent ==
    (last.op # "none" /\ last.op = prev.op) =>
        View(formatter.worksheet) = View(before)

C6_Witness ==
    /\ last.op = "apply_column_colors" /\ prev.op = "apply_column_colors"
    /\ ~last.raised /\ grey
    /\ Len(formatter.worksheet.cond_formats) = 4
    /\ done["apply_spacing"] = 1 /\ done["freeze_panes"] = 1

\* C10: the worksheet is changed only once the table has passed validation,
\* and on a table that validation rejects every operation raises and leaves
\* the worksheet as it was.
C10_NoChangeBeforeValidation ==
    /\ formatter.worksheet # EmptyWorksheet => formatter.validated
    /\ (last.op # "none" /\ ~formatter.validated) =>
          last.raised /\ formatter.worksheet = before

(***************************************************************************)
(* Properties of main().                                                   *)
(***************************************************************************)
Exited == cli.pc = "exited"

Interrupted == cli.int_try \/ cli.int_out

\* C7 as stated: every run ends with exit code 0, 1 or 130: 130 when the user
\* interrupted it at any point after argument parsing, otherwise 1 when
\* something failed and 0 when nothing did.
C7_ExitCodesAnyInterrupt ==
    Exited =>
        /\ cli.exit_code \in {0, 1, 130}
        /\ (Interrupted /\ cli.interrupted_at # "parse") => cli.exit_code = 130
        /\ (~Interrupted /\ cli.failure # "none") => cli.exit_code = 1
        /\ (~Interrupted /\ cli.failure = "none") => cli.exit_code = 0

\* C7 amended: every run whose command line parses ends with exit code 0, 1
\* or 130; unless an interrupt arrived outside the try block of main(), the
\* code is 130 when the user interrupted the run inside the try block (and no
\* error of the writer's close replaced the interrupt), otherwise 1 when input
\* validation, loading, writing, a formatting operation or the close failed,
\* with or without --verbose, and 0 when nothing failed.  A command line that
\* the parser rejects ends the run with the parser's status 2.
C7_ExitCodes ==
    Exited =>
        /\ cli.argv_ok => cli.exit_code \in {0, 1, 130}
        /\ (~cli.argv_ok /\ ~cli.int_out) => cli.exit_code = 2
        /\ (cli.argv_ok /\ ~cli.int_out) =>
              /\ (cli.int_try /\ ~cli.masked) => cli.exit_code = 130
              /\ (cli.failure # "none" /\ (~cli.int_try \/ cli.masked)) =>
                    cli.exit_code = 1
              /\ (cli.failure = "none" /\ ~cli.int_try) => cli.exit_code = 0

C7_Witness ==
    /\ Exited /\ cli.exit_code = 130
    /\ cli.int_try /\ ~cli.int_out /\ ~cli.masked
    /\ cli.applied = <<"apply_spacing", "apply_borders">>
    /\ cli.args.verbose

RECURSIVE ApplyAll(_, _, _)
ApplyAll(ops, f, g) ==
    IF ops = << >> THEN f ELSE ApplyAll(Tail(ops), Invoke(Head(ops), f, g).f, g)

IsStrictPrefix(s, t) == Len(s) < Len(t) /\ s = SubSeq(t, 1, Len(s))

\* A run in which nothing went wrong except, possibly, a formatting operation
\* that rejected the table.
Undisturbed ==
    /\ ~Interrupted
    /\ cli.writer # "broken"
    /\ cli.failure \in {"none", "format"}
    /\ ~cli.rejected

\* C8 as stated: when a requested operation failed after the writer was
\* opened, the run ends with the writer released and no output file; an output
\* file exists at the end only when every requested operation succeeded.
C8_NoOutputAfterFailure ==
    (Exited /\ Undisturbed) =>
        /\ cli.op_failed => cli.writer = "closed" /\ cli.outfile = "absent"
        /\ cli.outfile # "absent" =>
              ~cli.op_failed /\ cli.applied = requested(cli.args)

\* C8 amended: when a requested operation failed after the writer was opened,
\* the run ends (with exit code 1, unless interrupted) after the writer's
\* close has run; when that close completed, the output file is a complete workbook
\* that holds the table and the formatting of the operations that returned
\* before the failure, a strict prefix of the requested ones.
C8_FailedRunClosesAndSaves ==
    (Exited /\ cli.op_failed) =>
        /\ cli.writer \in {"closed", "broken"}
        /\ ~Interrupted => cli.exit_code = 1
        /\ cli.writer = "closed" =>
              /\ cli.outfile = "complete"
              /\ IsStrictPrefix(cli.applied, requested(cli.args))
              /\ cli.saved =
                    ApplyAll(cli.applied, MyFormatter(cli.df), grey).worksheet

C8_Witness ==
    /\ Exited /\ cli.op_failed /\ ~Interrupted
    /\ cli.writer = "closed" /\ cli.outfile = "complete"
    /\ cli.applied = <<"apply_spacing", "apply_borders">>
    /\ Len(cli.saved.cond_formats) = 1
    /\ cli.exit_code = 1

\* C9: a run without --sheet on a readable workbook, not interrupted, loads the
\* first sheet of the workbook, as the run with --sheet naming it does.
C9_DefaultSheetIsFirstSheet ==
    (Exited /\ ~Interrupted
        /\ cli.args.sheet = NoSheet /\ cli.input.kind = "workbook") =>
        /\ cli.loaded
        /\ cli.df = cli.input.sheets[1].table
        /\ cli.failure # "load"

====
